---- MODULE Spec2Model ----
(***************************************************************************)
(* Confluence snapshot synchronisation: the download walk                  *)
(* (download_confluence.py), the snapshot record codec and the upload      *)
(* planner (upload_confluence.py).                                         *)
(*                                                                         *)
(* Text is a sequence of tokens.  A token is either one structural         *)
(* character ("-", ":", " ", "\n", "\r") or a word: a non-empty run of     *)
(* characters none of which is structural.  Every string operation below   *)
(* (startswith, find, split, splitlines, strip, the regular expressions)   *)
(* only ever looks for structural characters or compares whole words, so   *)
(* it acts on token sequences exactly as the Python acts on the            *)
(* characters.  A markup token of a body (a closing tag, the opening of a  *)
(* macro) is one word too: bodies are searched for whole markup tokens     *)
(* and never parsed for keys.  Positions are 1-based; 0 stands for         *)
(* Python's -1.                                                            *)
(***************************************************************************)
EXTENDS Integers, Sequences, FiniteSets, TLC

DASH == "-"
COLON == ":"
SP == " "
NL == "\n"
CR == "\r"

\* '---'
DDD == <<DASH, DASH, DASH>>

\* characters str.strip() removes
Whitespace == {SP, NL, CR, "\t"}

\* line boundaries of str.splitlines()
LineBreaks == {NL, CR}

-----------------------------------------------------------------------------
(* Python string primitives                                                *)

startswith(t, p) == Len(t) >= Len(p) /\ SubSeq(t, 1, Len(p)) = p

\* str.find(p, start): the least position >= start where p occurs, else 0
find(t, p, start) ==
  LET hits == {i \in start..(Len(t) - Len(p) + 1) : SubSeq(t, i, i + Len(p) - 1) = p}
  IN IF hits = {} THEN 0 ELSE CHOOSE i \in hits : \A j \in hits : i <= j

RECURSIVE lstrip(_)
lstrip(t) == IF t # <<>> /\ Head(t) \in Whitespace THEN lstrip(Tail(t)) ELSE t

RECURSIVE rstrip(_)
rstrip(t) ==
  IF t # <<>> /\ t[Len(t)] \in Whitespace THEN rstrip(SubSeq(t, 1, Len(t) - 1)) ELSE t

strip(t) == rstrip(lstrip(t))

\* str.split(sep, maxsplit)
RECURSIVE split(_, _, _)
split(t, sep, maxsplit) ==
  LET i == find(t, sep, 1)
  IN IF maxsplit = 0 \/ i = 0 THEN <<t>>
     ELSE <<SubSeq(t, 1, i - 1)>> \o split(SubSeq(t, i + Len(sep), Len(t)), sep, maxsplit - 1)

\* str.splitlines(): "\n", "\r" and "\r\n" end a line; no empty last line
RECURSIVE splitlines(_)
splitlines(t) ==
  LET brk == {i \in 1..Len(t) : t[i] \in LineBreaks}
  IN IF t = <<>> THEN <<>>
     ELSE IF brk = {} THEN <<t>>
     ELSE LET e == CHOOSE i \in brk : \A j \in brk : i <= j
              w == IF t[e] = CR /\ e < Len(t) /\ t[e + 1] = NL THEN 2 ELSE 1
          IN <<SubSeq(t, 1, e - 1)>> \o splitlines(SubSeq(t, e + w, Len(t)))

\* sep.join(lines)
RECURSIVE join(_, _)
join(sep, lines) ==
  IF lines = <<>> THEN <<>>
  ELSE IF Len(lines) = 1 THEN lines[1]
  ELSE lines[1] \o sep \o join(sep, Tail(lines))

\* Path.read_text(encoding="utf-8"): the file is opened in text mode, where
\* every '\r\n' and every lone '\r' of the file reads as '\n'
read_text(bytes) ==
  LET translated == [i \in DOMAIN bytes |->
                       IF bytes[i] = NL /\ i > 1 /\ bytes[i - 1] = CR THEN ""
                       ELSE IF bytes[i] = CR THEN NL
                       ELSE bytes[i]]
      Kept(token) == token # ""
  IN SelectSeq(translated, Kept)

\* dict: a function from key text to value text
EmptyDict == [k \in {} |-> <<>>]

DictPut(d, k, v) == [x \in (DOMAIN d) \cup {k} |-> IF x = k THEN v ELSE d[x]]

\* d.get(k) == v   (None never equals a string)
DictGetIs(d, k, v) == k \in DOMAIN d /\ d[k] = v

-----------------------------------------------------------------------------
(* Digest                                                                  *)

\* hashlib.md5(text.encode('utf-8')).hexdigest(): one word that names the
\* text it digests, so that two texts share a digest only if they are equal
RECURSIVE md5_concat(_)
md5_concat(t) == IF t = <<>> THEN "" ELSE Head(t) \o "|" \o md5_concat(Tail(t))

md5_hexdigest(t) == <<"md5[" \o md5_concat(t) \o "]">>

\* a digest without the sentinel: the hash of empty input for the empty text
get_md5_exact_of_any(content) == md5_hexdigest(content)

\* upload side: get_md5_exact
get_md5_exact(content) == IF content # <<>> THEN md5_hexdigest(content) ELSE <<>>

-----------------------------------------------------------------------------
(* Snapshot record codec                                                   *)

\* re.match(r'([^:]+):\s*(.+)', line) on one line of a splitlines() result:
\* it matches when a non-empty prefix precedes the first ':' and at least one
\* character follows it; group 1 is the prefix, and group 2 stripped is the
\* rest stripped (when the rest is all blanks, '\s*' gives back its last one)
\* a pattern that wants a value with something in it: r'([^:]+):\s*(\S.*)'
KeyValueMatchesNonBlank(line) ==
  LET p == find(line, <<COLON>>, 1)
  IN p > 1 /\ p < Len(line) /\ strip(SubSeq(line, p + 1, Len(line))) # <<>>

KeyValueMatches(line) ==
  LET p == find(line, <<COLON>>, 1) IN p > 1 /\ p < Len(line)

KeyValueKey(line) == strip(SubSeq(line, 1, find(line, <<COLON>>, 1) - 1))

KeyValueValue(line) == strip(SubSeq(line, find(line, <<COLON>>, 1) + 1, Len(line)))

\* for line in lines: m = re.match(...); if m: front[group1.strip()] = group2.strip()
RECURSIVE FrontOfLines(_, _)
FrontOfLines(lines, front) ==
  IF lines = <<>> THEN front
  ELSE FrontOfLines(Tail(lines),
         IF KeyValueMatches(Head(lines))
         THEN DictPut(front, KeyValueKey(Head(lines)), KeyValueValue(Head(lines)))
         ELSE front)

\* the legacy loop of parse_front_matter: the lines between the first and the
\* second line that strips to '---' are the front matter; body_start is the
\* (1-based) number of the line after the second one, 0 when there is none
RECURSIVE LegacyScan(_, _, _, _)
LegacyScan(lines, i, in_front, front) ==
  IF i > Len(lines) THEN [front |-> front, body_start |-> 0]
  ELSE IF strip(lines[i]) = DDD
       THEN IF ~in_front THEN LegacyScan(lines, i + 1, TRUE, front)
            ELSE [front |-> front, body_start |-> i + 1]
       ELSE LegacyScan(lines, i + 1, in_front,
              IF in_front /\ KeyValueMatches(lines[i])
              THEN DictPut(front, KeyValueKey(lines[i]), KeyValueValue(lines[i]))
              ELSE front)

LegacyParse(content) ==
  LET lines == splitlines(content)
      scan == LegacyScan(lines, 1, FALSE, EmptyDict)
  IN [front |-> scan.front,
      body |-> IF scan.body_start # 0
               THEN join(<<NL>>, SubSeq(lines, scan.body_start, Len(lines)))
               ELSE <<>>]

\* the position of the closing marker newline + '---' + newline, searched
\* from just after the opening line
ClosingMarkerNewline(content) == IF startswith(content, DDD \o <<CR, NL>>) THEN <<CR, NL>> ELSE <<NL>>

ClosingMarker(content) == ClosingMarkerNewline(content) \o DDD \o ClosingMarkerNewline(content)

StartOffset(content) == Len(DDD \o ClosingMarkerNewline(content))

EndIndex(content) == find(content, ClosingMarker(content), StartOffset(content) + 1)

parse_front_matter(content) ==
  IF ~startswith(content, DDD) THEN [front |-> EmptyDict, body |-> content]
  ELSE IF EndIndex(content) = 0 THEN LegacyParse(content)
  ELSE [front |-> FrontOfLines(
                    splitlines(SubSeq(content, StartOffset(content) + 1, EndIndex(content) - 1)),
                    EmptyDict),
        body |-> SubSeq(content, EndIndex(content) + Len(ClosingMarker(content)), Len(content))]

\* save_page's own reader of the record already on disk
RECURSIVE ExistingMetaOfLines(_, _)
ExistingMetaOfLines(lines, meta) ==
  IF lines = <<>> THEN meta
  ELSE LET line == Head(lines)
           kv == split(line, <<COLON>>, 1)
       IN ExistingMetaOfLines(Tail(lines),
            IF find(line, <<COLON>>, 1) # 0
            THEN DictPut(meta, strip(kv[1]), strip(kv[2]))
            ELSE meta)

\* a reader that splits the record once only
existing_meta_split_once(existing_text) ==
  IF startswith(existing_text, DDD)
  THEN LET parts == split(existing_text, DDD, 1)
       IN IF Len(parts) >= 3
          THEN ExistingMetaOfLines(splitlines(strip(parts[2])), EmptyDict)
          ELSE EmptyDict
  ELSE EmptyDict

existing_meta(existing_text) ==
  IF startswith(existing_text, DDD)
  THEN LET parts == split(existing_text, DDD, 2)
       IN IF Len(parts) >= 3
          THEN ExistingMetaOfLines(splitlines(strip(parts[2])), EmptyDict)
          ELSE EmptyDict
  ELSE EmptyDict

\* the f-string of save_page
front_matter(url, page_id, space, version, retrieved, fmt, content_hash, m_sm, m_img, m_link, output_hash) ==
     DDD \o <<NL>>
  \o <<"source", COLON, SP>> \o url \o <<NL>>
  \o <<"confluence_id", COLON, SP>> \o page_id \o <<NL>>
  \o <<"space", COLON, SP>> \o space \o <<NL>>
  \o <<"version", COLON, SP>> \o version \o <<NL>>
  \o <<"retrieved", COLON, SP>> \o retrieved \o <<NL>>
  \o <<"format", COLON, SP>> \o fmt \o <<NL>>
  \o <<"content_hash", COLON, SP>> \o content_hash \o <<NL>>
  \o <<"macro_structured_macro", COLON, SP>> \o m_sm \o <<NL>>
  \o <<"macro_image", COLON, SP>> \o m_img \o <<NL>>
  \o <<"macro_link", COLON, SP>> \o m_link \o <<NL>>
  \o <<"output_hash", COLON, SP>> \o output_hash \o <<NL>>
  \o DDD \o <<NL>>

\* closing tags the readability pattern matches (re.IGNORECASE): a markup
\* token (a closing tag, the opening of a macro) is one word
ClosingTags ==
  {"</p>", "</li>", "</tr>", "</td>", "</th>", "</h1>", "</h2>", "</h3>", "</h4>",
   "</h5>", "</h6>", "</pre>", "</blockquote>", "</div>", "</table>",
   "</P>", "</LI>", "</TR>", "</TD>", "</TH>", "</H1>", "</H2>", "</H3>", "</H4>",
   "</H5>", "</H6>", "</PRE>", "</BLOCKQUOTE>", "</DIV>", "</TABLE>"}

\* pattern.sub(r"\1" + newline, xhtml)
RECURSIVE _add_linebreaks_after_tags(_)
_add_linebreaks_after_tags(xhtml) ==
  IF xhtml = <<>> THEN xhtml
  ELSE (IF Head(xhtml) \in ClosingTags THEN <<Head(xhtml), NL>> ELSE <<Head(xhtml)>>)
       \o _add_linebreaks_after_tags(Tail(xhtml))

\* len(re.findall(opening, content))
CountOf(opening, content) == Cardinality({i \in 1..Len(content) : content[i] = opening})

-----------------------------------------------------------------------------
(* State                                                                   *)

VARIABLES
  remote,          \* the remote site: page id -> [title, space, webui, body, version, children]
  disk,            \* the site's output directory: file name -> record text
  clock,           \* datetime.now(): it moves on with every record written
  max_depth,       \* integrations.confluence.pages.maxDepth
  linebreak_mode,  \* --linebreaks of the current download run
  dl,              \* download main(): the run and the roots still to walk
  seen,            \* download_tree's seen set of the current walk
  stack,           \* download_tree's recursion: one frame per active call
  up,              \* upload main(): the run, the files still to process, the current file
  calls,           \* the calls of the current walk / upload run: download_tree itself,
                   \* the remote calls, the record saves
  attfiles,        \* attachment and image files written beside the records
  dirty,           \* some remote page changed since the current download run began
  foreign,         \* pages whose remote body another writer wrote after their last download
  edits,           \* local edits of record bodies so far
  saved,           \* the last save_page call: what it found on disk and whether it wrote
  cin,             \* codec harness: the input of a pure function
  cout             \* codec harness: its result

vars == <<remote, disk, clock, max_depth, linebreak_mode, dl, seen, stack, up, calls,
          attfiles, dirty, foreign, edits, saved, cin, cout>>

-----------------------------------------------------------------------------
(* Bounds of the model                                                     *)

\* download runs per behaviour
MaxRuns == 2

\* upload runs per behaviour
MaxUploads == 1

\* remote versions run from 1 to MaxVersion
MaxVersion == 2

\* local edits of record bodies per behaviour
MaxLocalEdits == 1

\* max_depth is drawn from 0..MaxDepthBound in the walk specification
MaxDepthBound == 5

\* bodies of the codec harness are made of at most MaxBodyLen chunks
MaxBodyLen == 3

\* macro counts of a record are read as integers up to MaxMacroCount
MaxMacroCount == 4

\* interrupted upload runs per behaviour
MaxInterrupts == 1

-----------------------------------------------------------------------------
(* Program constants                                                       *)

\* if len(safe_title) > 120: safe_title = safe_title[:120]
MaxTitleLen == 120

\* max_depth = _safe_get(pages, ["maxDepth"], 50)
DefaultMaxDepth == 50

\* _get_env_timeout(15.0), in tenths of a second
DefaultTimeout == 150

\* REQUEST_TIMEOUT = max(args.timeout, 0.1), in tenths of a second
MinTimeout == 1

-----------------------------------------------------------------------------
(* The remote site                                                         *)

\* scheme://netloc of the configured parent page URL
BaseUrl == <<"https", COLON, "//wiki.example">>

PlainWebui(n) == <<"/wiki/spaces/S/pages/" \o ToString(n) \o "/Page">>

\* the web link of a page titled "A --- B"
DashedWebui(n) == <<"/wiki/spaces/S/pages/" \o ToString(n) \o "/A+">> \o DDD \o <<"+B">>

Page(title, webui, body, version, attachments, children) ==
  [title |-> title, space |-> <<"S">>, webui |-> webui, body |-> body,
   version |-> version, attachments |-> attachments, children |-> children]

\* str(page_id), str(version), the macro counts of the f-string
Str(n) == <<ToString(n)>>

\* get_page(base_url, page_id, headers): the page JSON as the remote has it now
get_page(page_id) == [id |-> page_id] @@ remote[page_id]

\* get_attachments(base_url, page_id, headers): the titles of the attachments
get_attachments(page_id) == remote[page_id].attachments

\* get_children(base_url, page_id, headers): the ids in the remote's order
get_children(page_id) == remote[page_id].children

-----------------------------------------------------------------------------
(* save_page                                                               *)

\* [\\/:*?"<>|]
IllegalFileChars == {"\\", "/", COLON, "*", "?", "\"", "<", ">", "|"}

\* re.sub(r'[\\/:*?"<>|]', '-', title).strip(), cut to 120 characters
safe_title(title) ==
  LET s == strip([i \in 1..Len(title) |-> IF title[i] \in IllegalFileChars THEN DASH ELSE title[i]])
  IN IF Len(s) > MaxTitleLen THEN SubSeq(s, 1, MaxTitleLen) ELSE s

\* f"{space}-{page_id}-{safe_title}.xhtml"
file_name(page) ==
  page.space \o <<DASH>> \o Str(page.id) \o <<DASH>> \o safe_title(page.title) \o <<".xhtml">>

\* f"{space}-{page_id}-{att_safe_title}"
att_file_name(page, att_title) ==
  page.space \o <<DASH>> \o Str(page.id) \o <<DASH>> \o safe_title(att_title)

\* output_xhtml: the body as persisted
output_xhtml(xhtml, mode) ==
  IF mode = "tags" THEN _add_linebreaks_after_tags(xhtml) ELSE xhtml

\* url = base_url + links['webui']
source_url(page) == BaseUrl \o page.webui

\* datetime.datetime.now().isoformat()
retrieved(now) == <<"2026", DASH, "11", DASH, "03T10", COLON, "00", COLON, ToString(now)>>

\* content_hash and output_hash: hashlib.md5(...).hexdigest() if text else ''
content_hash_of(xhtml) == IF xhtml # <<>> THEN md5_hexdigest(xhtml) ELSE <<>>

output_hash_of(out) == IF out # <<>> THEN md5_hexdigest(out) ELSE <<>>

\* macro_counts(xhtml)
macro_counts(content) ==
  [structured_macro |-> CountOf("<ac:structured-macro", content),
   image |-> CountOf("<ac:image", content),
   link |-> CountOf("<ac:link", content)]

\* a record whose content hash is taken after the readability transform
record_text_hashed_after_transform(page, mode, now) ==
  front_matter(source_url(page), Str(page.id), page.space, Str(page.version),
               retrieved(now), <<"xhtml">>, content_hash_of(output_xhtml(page.body, mode)),
               Str(macro_counts(page.body).structured_macro),
               Str(macro_counts(page.body).image),
               Str(macro_counts(page.body).link),
               output_hash_of(output_xhtml(page.body, mode)))
  \o output_xhtml(page.body, mode)

\* a record whose output hash is taken before the readability transform
record_text_output_hash_of_fetched(page, mode, now) ==
  front_matter(source_url(page), Str(page.id), page.space, Str(page.version),
               retrieved(now), <<"xhtml">>, content_hash_of(page.body),
               Str(macro_counts(page.body).structured_macro),
               Str(macro_counts(page.body).image),
               Str(macro_counts(page.body).link),
               output_hash_of(page.body))
  \o output_xhtml(page.body, mode)

\* front_matter + output_xhtml, as written by file_path.write_text
record_text(page, mode, now) ==
  front_matter(source_url(page), Str(page.id), page.space, Str(page.version),
               retrieved(now), <<"xhtml">>, content_hash_of(page.body),
               Str(macro_counts(page.body).structured_macro),
               Str(macro_counts(page.body).image),
               Str(macro_counts(page.body).link),
               output_hash_of(output_xhtml(page.body, mode)))
  \o output_xhtml(page.body, mode)

\* file_path.read_text() when file_path.exists(); nothing to read otherwise
ExistingTextAt(path) == IF path \in DOMAIN disk THEN read_text(disk[path]) ELSE <<>>

\* the metadata save_page reads back from the record at file_path, if any
ExistingMetaAt(path) == IF path \in DOMAIN disk THEN existing_meta(read_text(disk[path])) ELSE EmptyDict

\* the test that makes save_page return without writing
NoChanges(meta, output_hash, content_hash, version) ==
  /\ DictGetIs(meta, <<"output_hash">>, output_hash)
  /\ DictGetIs(meta, <<"content_hash">>, content_hash)
  /\ DictGetIs(meta, <<"version">>, Str(version))

SkipsWrite(page, mode) ==
  NoChanges(ExistingMetaAt(file_name(page)),
            output_hash_of(output_xhtml(page.body, mode)),
            content_hash_of(page.body), page.version)

WriteFile(files, path, text) == [f \in (DOMAIN files) \cup {path} |-> IF f = path THEN text ELSE files[f]]

-----------------------------------------------------------------------------
(* download_tree and the loop of download main()                           *)

NullPage ==
  [id |-> 0, title |-> <<>>, space |-> <<>>, webui |-> <<>>, body |-> <<>>,
   version |-> 0, attachments |-> <<>>, children |-> <<>>]

\* one call of download_tree(root_id, depth, seen)
Frame(root_id, depth) ==
  [id |-> root_id, depth |-> depth, pc |-> "enter", page |-> NullPage,
   atts |-> <<>>, kids |-> <<>>]

Top == stack[Len(stack)]

Pop == SubSeq(stack, 1, Len(stack) - 1)

SetTop(frame) == [stack EXCEPT ![Len(stack)] = frame]

\* an entry of calls; the upload's entries also name the file being processed
\* and say whether the page's remote body is another writer's (foreign) and
\* whether it changed after this file's get_page (raced)
UploadCall(op, id, ver, ok, file, fgn, raced) ==
  [op |-> op, id |-> id, ver |-> ver, ok |-> ok, file |-> file, foreign |-> fgn, raced |-> raced]

Call(op, id, ver, ok) == UploadCall(op, id, ver, ok, <<>>, FALSE, FALSE)

\* a walk whose depth test lets one level too many through
ReturnsEarlyOneLevelLate(root_id, depth) == root_id \in seen \/ depth > max_depth + 1

\* a walk that forgets its seen set
ReturnsEarlyDepthOnly(root_id, depth) == depth > max_depth

\* if root_id in seen or depth > max_depth: return
ReturnsEarly(root_id, depth) == root_id \in seen \/ depth > max_depth

\* the depth of the recursive call for a child
ChildDepth(depth) == depth + 1

\* download main(): one run over the configured parent page URLs
StartDownload(mode) ==
  /\ ~dl.active /\ ~up.active
  /\ dl.runs < MaxRuns
  /\ dl' = [dl EXCEPT !.active = TRUE, !.runs = @ + 1, !.todo = dl.roots, !.writes = 0,
                      !.quiet = (dl.runs >= 1 /\ ~dl.crashed /\ ~dirty /\ mode = linebreak_mode),
                      !.walked = <<>>, !.crashed = FALSE, !.failed = 0, !.cut = {}]
  /\ linebreak_mode' = mode
  /\ dirty' = FALSE
  /\ calls' = <<>>
  /\ UNCHANGED <<remote, disk, clock, max_depth, seen, stack, up, attfiles, foreign, edits, saved, cin, cout>>

\* what main finds in the parent URL it takes next: "ok", "blank" (not a
\* string, or only blanks), "unparsable" (no scheme or host, no /pages/<id>),
\* "no_credentials" (no credentials configured for the URL's site)
NextUrl == dl.urls[Len(dl.roots) - Len(dl.todo) + 1]

\* an exception that nothing catches: it unwinds every download_tree call
\* and main; the ids of the calls it unwinds through are kept in cut
Raise(id) ==
  [dl EXCEPT !.active = FALSE, !.crashed = TRUE, !.failed = id,
             !.cut = {stack[i].id : i \in 1..Len(stack) - 1}]

\* if not isinstance(page_url, str) or not page_url.strip(): continue
NextRootBlank ==
  /\ dl.active /\ stack = <<>> /\ dl.todo # <<>>
  /\ NextUrl = "blank"
  /\ dl' = [dl EXCEPT !.todo = Tail(@)]
  /\ UNCHANGED <<remote, disk, clock, max_depth, linebreak_mode, seen, stack, up, calls,
                 attfiles, dirty, foreign, edits, saved, cin, cout>>

\* _extract_confluence_base_url_and_page_id raises ValueError, _get_site_creds
\* raises RuntimeError: main has no handler
NextRootRaises ==
  /\ dl.active /\ stack = <<>> /\ dl.todo # <<>>
  /\ NextUrl \in {"unparsable", "no_credentials"}
  /\ dl' = [dl EXCEPT !.active = FALSE, !.crashed = TRUE]
  /\ UNCHANGED <<remote, disk, clock, max_depth, linebreak_mode, seen, stack, up, calls,
                 attfiles, dirty, foreign, edits, saved, cin, cout>>

\* for page_url in parent_urls: seen = set(); download_tree(base_url, page_id, ...)
NextRoot ==
  /\ dl.active /\ stack = <<>> /\ dl.todo # <<>>
  /\ NextUrl = "ok"
  /\ seen' = {}
  /\ stack' = <<Frame(Head(dl.todo), 0)>>
  /\ dl' = [dl EXCEPT !.todo = Tail(@), !.root = Head(dl.todo), !.walked = Append(@, Head(dl.todo))]
  /\ calls' = <<Call("download_tree", Head(dl.todo), 0, TRUE)>>
  /\ UNCHANGED <<remote, disk, clock, max_depth, linebreak_mode, up, attfiles, dirty, foreign, edits, saved, cin, cout>>

FinishDownload ==
  /\ dl.active /\ stack = <<>> /\ dl.todo = <<>>
  /\ dl' = [dl EXCEPT !.active = FALSE]
  /\ UNCHANGED <<remote, disk, clock, max_depth, linebreak_mode, seen, stack, up, calls,
                 attfiles, dirty, foreign, edits, saved, cin, cout>>

download_tree_return_early ==
  /\ stack # <<>> /\ Top.pc = "enter"
  /\ ReturnsEarly(Top.id, Top.depth)
  /\ stack' = Pop
  /\ UNCHANGED <<remote, disk, clock, max_depth, linebreak_mode, dl, seen, up, calls,
                 attfiles, dirty, foreign, edits, saved, cin, cout>>

\* seen.add(root_id); page = get_page(base_url, root_id, headers)
download_tree_get_page ==
  /\ stack # <<>> /\ Top.pc = "enter"
  /\ ~ReturnsEarly(Top.id, Top.depth)
  /\ seen' = seen \cup {Top.id}
  /\ stack' = SetTop([Top EXCEPT !.pc = "attachments", !.page = get_page(Top.id)])
  /\ calls' = Append(calls, Call("get_page", Top.id, remote[Top.id].version, TRUE))
  /\ foreign' = foreign \ {Top.id}
  /\ UNCHANGED <<remote, disk, clock, max_depth, linebreak_mode, dl, up, attfiles, dirty, edits, saved, cin, cout>>

\* attachments = get_attachments(...) if download_attachments else []
download_tree_get_attachments ==
  /\ stack # <<>> /\ Top.pc = "attachments"
  /\ stack' = SetTop([Top EXCEPT !.pc = "save",
                                 !.atts = IF dl.attachments THEN get_attachments(Top.id) ELSE <<>>])
  /\ calls' = IF dl.attachments
              THEN Append(calls, Call("get_attachments", Top.id, 0, TRUE))
              ELSE calls
  /\ UNCHANGED <<remote, disk, clock, max_depth, linebreak_mode, dl, seen, up, attfiles,
                 dirty, foreign, edits, saved, cin, cout>>

\* a loop that the first failed download ends
RECURSIVE AttemptedUntilFailure(_, _)
AttemptedUntilFailure(atts, got) ==
  IF atts = <<>> THEN <<>>
  ELSE IF Head(atts) \in got THEN <<Head(atts)>> \o AttemptedUntilFailure(Tail(atts), got)
  ELSE <<Head(atts)>>

\* for att in attachments: try: requests.get ... except Exception: print: the
\* attachments the loop tries to download when those of got succeed
Attempted(atts, got) == atts

\* save_page(page, out_dir, ...): the attachments and images that download (any
\* of them may fail, which is only printed), then the record unless unchanged
download_tree_save_page ==
  /\ stack # <<>> /\ Top.pc = "save"
  /\ \E got \in SUBSET {Top.atts[i] : i \in 1..Len(Top.atts)} :
       LET tried == Attempted(Top.atts, got)
           writes == ~SkipsWrite(Top.page, linebreak_mode)
       IN /\ attfiles' = attfiles \cup {att_file_name(Top.page, tried[i]) :
                                          i \in {j \in 1..Len(tried) : tried[j] \in got}}
          /\ saved' = [path |-> file_name(Top.page), old |-> ExistingTextAt(file_name(Top.page)),
                       page |-> Top.page, mode |-> linebreak_mode, wrote |-> writes,
                       new |-> IF writes THEN record_text(Top.page, linebreak_mode, clock)
                               ELSE <<>>,
                       attempted |-> tried]
  /\ LET writes == ~SkipsWrite(Top.page, linebreak_mode)
     IN /\ disk' = IF writes
                   THEN WriteFile(disk, file_name(Top.page), record_text(Top.page, linebreak_mode, clock))
                   ELSE disk
        /\ clock' = IF writes THEN clock + 1 ELSE clock
        /\ dl' = IF writes THEN [dl EXCEPT !.writes = @ + 1] ELSE dl
        /\ calls' = Append(calls, Call("save_page", Top.id, Top.page.version, writes))
  /\ stack' = SetTop([Top EXCEPT !.pc = "children", !.page = NullPage, !.atts = <<>>])
  /\ UNCHANGED <<remote, max_depth, linebreak_mode, seen, up, dirty, foreign, edits, cin, cout>>

\* for child in get_children(base_url, root_id, headers):
download_tree_get_children ==
  /\ stack # <<>> /\ Top.pc = "children"
  /\ stack' = SetTop([Top EXCEPT !.pc = "loop", !.kids = get_children(Top.id)])
  /\ calls' = Append(calls, Call("get_children", Top.id, 0, TRUE))
  /\ UNCHANGED <<remote, disk, clock, max_depth, linebreak_mode, dl, seen, up, attfiles,
                 dirty, foreign, edits, saved, cin, cout>>

\* a loop that takes the children from the end of the list
NextChildFromEnd(kids) == kids[Len(kids)]

\* for child in get_children(...): the child the loop takes next
NextChild(kids) == Head(kids)

\* download_tree(base_url, child["id"], ..., depth + 1, seen, ...)
download_tree_recurse ==
  /\ stack # <<>> /\ Top.pc = "loop" /\ Top.kids # <<>>
  /\ stack' = Append(SetTop([Top EXCEPT !.kids = Tail(@)]),
                     Frame(NextChild(Top.kids), ChildDepth(Top.depth)))
  /\ calls' = Append(calls, Call("download_tree", NextChild(Top.kids), ChildDepth(Top.depth), TRUE))
  /\ UNCHANGED <<remote, disk, clock, max_depth, linebreak_mode, dl, seen, up,
                 attfiles, dirty, foreign, edits, saved, cin, cout>>

download_tree_return ==
  /\ stack # <<>> /\ Top.pc = "loop" /\ Top.kids = <<>>
  /\ stack' = Pop
  /\ UNCHANGED <<remote, disk, clock, max_depth, linebreak_mode, dl, seen, up, calls,
                 attfiles, dirty, foreign, edits, saved, cin, cout>>

\* response.raise_for_status() or the request itself raises in get_page: no
\* handler in download_tree or main
download_tree_get_page_raises ==
  /\ stack # <<>> /\ Top.pc = "enter"
  /\ ~ReturnsEarly(Top.id, Top.depth)
  /\ seen' = seen \cup {Top.id}
  /\ calls' = Append(calls, Call("get_page", Top.id, 0, FALSE))
  /\ dl' = Raise(Top.id)
  /\ stack' = <<>>
  /\ UNCHANGED <<remote, disk, clock, max_depth, linebreak_mode, up, attfiles, dirty,
                 foreign, edits, saved, cin, cout>>

download_tree_get_attachments_raises ==
  /\ stack # <<>> /\ Top.pc = "attachments"
  /\ dl.attachments
  /\ calls' = Append(calls, Call("get_attachments", Top.id, 0, FALSE))
  /\ dl' = Raise(Top.id)
  /\ stack' = <<>>
  /\ UNCHANGED <<remote, disk, clock, max_depth, linebreak_mode, seen, up, attfiles, dirty,
                 foreign, edits, saved, cin, cout>>

download_tree_get_children_raises ==
  /\ stack # <<>> /\ Top.pc = "children"
  /\ calls' = Append(calls, Call("get_children", Top.id, 0, FALSE))
  /\ dl' = Raise(Top.id)
  /\ stack' = <<>>
  /\ UNCHANGED <<remote, disk, clock, max_depth, linebreak_mode, seen, up, attfiles, dirty,
                 foreign, edits, saved, cin, cout>>

download_tree_raises ==
  \/ download_tree_get_page_raises
  \/ download_tree_get_attachments_raises
  \/ download_tree_get_children_raises

download_tree ==
  \/ download_tree_return_early
  \/ download_tree_get_page
  \/ download_tree_get_attachments
  \/ download_tree_save_page
  \/ download_tree_get_children
  \/ download_tree_recurse
  \/ download_tree_return

-----------------------------------------------------------------------------
(* The walk specification: one site, a catalogue of page graphs            *)

Leaf(n) == Page(<<"P">>, PlainWebui(n), <<"x">>, 1, <<>>, <<>>)

Node(n, children) == Page(<<"P">>, PlainWebui(n), <<"x">>, 1, <<>>, children)

\* 1 - 2 - 3 - 4
GraphChain == <<Node(1, <<2>>), Node(2, <<3>>), Node(3, <<4>>), Leaf(4)>>

\* 1 has 2 and 3; 2 has 4
GraphTree == <<Node(1, <<3, 2>>), Node(2, <<4>>), Leaf(3), Leaf(4)>>

\* 3 lists its ancestor 1 as a child
GraphCycle == <<Node(1, <<2>>), Node(2, <<3>>), Node(3, <<1, 4>>), Leaf(4)>>

\* 1 lists itself; 2 is listed twice
GraphSelf == <<Node(1, <<1, 2, 2>>), Node(2, <<3>>), Leaf(3), Leaf(4)>>

\* 4 is a child of both 2 and 3
GraphDiamond == <<Node(1, <<2, 3>>), Node(2, <<4>>), Node(3, <<4>>), Leaf(4)>>

\* 3 is a child of 1 and, listed first, a grandchild through 2
GraphReparented == <<Node(1, <<2, 3>>), Node(2, <<3>>), Node(3, <<4>>), Leaf(4)>>

\* 1 has two attachments and the child 2
GraphAttachments ==
  <<Page(<<"P">>, PlainWebui(1), <<"x">>, 1, <<<<"a.png">>, <<"b.png">>>>, <<2>>),
    Leaf(2), Leaf(3), Leaf(4)>>

WalkGraphs ==
  {GraphChain, GraphTree, GraphCycle, GraphSelf, GraphDiamond, GraphReparented, GraphAttachments}

WalkRoots == {<<1>>, <<1, 2>>}

\* the parent URLs of the configuration: every one in order, or the first one
\* blank, unparsable or on a site without credentials and the second one on
\* another site
WalkUrls(roots) ==
  IF Len(roots) = 1 THEN {<<"ok">>}
  ELSE {<<k, "ok">> : k \in {"ok", "blank", "unparsable", "no_credentials"}}

NoUpload ==
  [active |-> FALSE, runs |-> 0, dry_run |-> FALSE, files |-> <<>>, pc |-> "idle",
   file |-> <<>>, page_id |-> <<>>, title |-> <<>>, body |-> <<>>, current_version |-> 0,
   raced |-> FALSE, stored_version |-> <<>>, skipped |-> <<>>, would_update |-> <<>>,
   warnings |-> {}, failures |-> {}, done |-> {}, before |-> {}, interrupts |-> 0,
   others |-> FALSE, sent |-> {}]

NoSave ==
  [path |-> <<>>, old |-> <<>>, page |-> NullPage, mode |-> "none", wrote |-> FALSE,
   new |-> <<>>, attempted |-> <<>>]

IdleDownload(roots, attachments) ==
  [active |-> FALSE, runs |-> 0, roots |-> roots, todo |-> <<>>, root |-> 0, writes |-> 0,
   quiet |-> FALSE, attachments |-> attachments,
   urls |-> [i \in 1..Len(roots) |-> "ok"], walked |-> <<>>, crashed |-> FALSE,
   failed |-> 0, cut |-> {}]

InitWalk ==
  /\ remote \in WalkGraphs
  /\ disk = EmptyDict
  /\ clock = 0
  /\ max_depth \in 0..MaxDepthBound
  /\ linebreak_mode = "none"
  /\ dl \in UNION {{[IdleDownload(r, a) EXCEPT !.urls = u] : u \in WalkUrls(r)} :
                     r \in WalkRoots, a \in BOOLEAN}
  /\ seen = {}
  /\ stack = <<>>
  /\ up = NoUpload
  /\ calls = <<>>
  /\ attfiles = {}
  /\ dirty = FALSE
  /\ foreign = {}
  /\ edits = 0
  /\ saved = NoSave
  /\ cin = <<>>
  /\ cout = <<>>

NextWalk ==
  \/ StartDownload("none")
  \/ NextRoot
  \/ NextRootBlank
  \/ NextRootRaises
  \/ FinishDownload
  \/ download_tree
  \/ download_tree_raises

SpecWalk == InitWalk /\ [][NextWalk]_vars

-----------------------------------------------------------------------------
(* Properties of the walk                                                  *)

Pages == DOMAIN remote

ChildrenOf(n) == {remote[n].children[i] : i \in 1..Len(remote[n].children)}

\* the pages at most k child links away from root
RECURSIVE Within(_, _)
Within(root, k) ==
  IF k <= 0 THEN (IF k = 0 THEN {root} ELSE {})
  ELSE Within(root, k - 1) \cup UNION {ChildrenOf(n) : n \in Within(root, k - 1)}

Reachable(root) == Within(root, Cardinality(Pages))

CallsOf(op, id) == {i \in 1..Len(calls) : calls[i].op = op /\ calls[i].id = id}

Fetched == {calls[i].id : i \in {j \in 1..Len(calls) : calls[j].op \in {"get_page", "get_attachments", "save_page"}}}

WalkOver == dl.active /\ dl.root # 0 /\ stack = <<>>

\* C6 (depth bound): in the walk that download_tree started at depth 0 from
\* dl.root, every page for which get_page, get_attachments or save_page was
\* called lies at most max_depth child links below the root; a page deeper
\* than max_depth is never fetched.
C6_DepthBound == dl.root # 0 => Fetched \subseteq Within(dl.root, max_depth)

\* a finished walk over a graph that goes deeper than max_depth: the pages at
\* max_depth were fetched and a deeper page was not
C6_Witness ==
  /\ WalkOver
  /\ Fetched # {}
  /\ Reachable(dl.root) \ Within(dl.root, max_depth) # {}
  /\ (Reachable(dl.root) \ Within(dl.root, max_depth)) \cap Fetched = {}
  /\ (Within(dl.root, max_depth) \ Within(dl.root, max_depth - 1)) \cap Fetched # {}

\* a run of main() that ended, by its last line or by an exception
RunEnded == dl.runs > 0 /\ ~dl.active

AllUrlsOk == \A i \in 1..Len(dl.urls) : dl.urls[i] = "ok"

\* C26 (walk completeness): when no remote call failed, the finished walk
\* from dl.root has fetched and saved every page whose shortest child-link
\* distance from the root is at most max_depth.
C26_WalkComplete ==
  (WalkOver /\ calls # <<>> /\ dl.failed = 0 /\ ~dl.crashed) =>
    \A n \in Within(dl.root, max_depth) :
      CallsOf("get_page", n) # {} /\ CallsOf("save_page", n) # {}

\* C12 (download bulkhead): when a remote call failed for a node, every
\* sibling subtree was still offered to download_tree (each child of each
\* ancestor of the failed node) and every configured root was still walked.
C12_DownloadBulkhead ==
  (RunEnded /\ AllUrlsOk /\ dl.failed # 0) =>
    /\ dl.walked = dl.roots
    /\ \A a \in dl.cut : \A c \in ChildrenOf(a) : CallsOf("download_tree", c) # {}

\* C13 (ConfigError per site): when the first parent URL cannot be parsed or
\* its site has no credentials, the later root on the other site is still
\* walked.
C13_ConfigErrorPerSite ==
  (RunEnded /\ dl.failed = 0 /\ Len(dl.roots) = 2
     /\ dl.urls[1] \in {"unparsable", "no_credentials"} /\ dl.urls[2] = "ok") =>
    dl.walked = <<dl.roots[2]>>

\* C20 (attachments are best effort): whichever downloads of a node's
\* attachments failed, save_page attempted every attachment of the node, the
\* node's record is on disk, and right after save_page the walk is at the
\* node's get_children.
C20_AttachmentsBestEffort ==
  saved.path # <<>> =>
    /\ saved.attempted = (IF dl.attachments THEN remote[saved.page.id].attachments ELSE <<>>)
    /\ saved.path \in DOMAIN disk
    /\ saved.wrote => disk[saved.path] = saved.new
    /\ (calls # <<>> /\ calls[Len(calls)].op = "save_page") =>
         /\ stack # <<>> /\ Top.id = saved.page.id /\ Top.pc = "children"

\* in a first run the first attachment of page 1 failed and the second was
\* downloaded; the record of page 1 is on disk and its child 2 was fetched
C20_Witness ==
  /\ remote = GraphAttachments /\ dl.runs = 1 /\ dl.attachments
  /\ att_file_name(get_page(1), <<"a.png">>) \notin attfiles
  /\ att_file_name(get_page(1), <<"b.png">>) \in attfiles
  /\ file_name(get_page(1)) \in DOMAIN disk
  /\ CallsOf("get_page", 2) # {}

\* the ids download_tree was called with at the given depth after the
\* get_children call for the page id, in the order of the calls
OfferedAfterChildrenOf(id, depth) ==
  LET from == CHOOSE i \in CallsOf("get_children", id) : TRUE
      Offered(entry) == entry.op = "download_tree" /\ entry.ver = depth
      later == SelectSeq(SubSeq(calls, from + 1, Len(calls)), Offered)
  IN [i \in DOMAIN later |-> later[i].id]

\* C21 (traversal order): the walk is depth first (the call at depth d runs
\* under d unfinished calls, all of them in their loop over the children); a
\* page is fetched only after the record of each of its ancestors was saved;
\* and the children a node's loop has handed to download_tree so far,
\* followed by those it has left, are the list get_children returned.
C21_TraversalOrder ==
  /\ \A i \in 1..Len(stack) :
       /\ stack[i].depth = i - 1
       /\ i < Len(stack) => stack[i].pc = "loop"
  /\ (stack # <<>> /\ Top.pc # "enter") =>
       \A i \in 1..(Len(stack) - 1) :
         \E s \in CallsOf("save_page", stack[i].id) :
           \A g \in CallsOf("get_page", Top.id) : s < g
  /\ \A i \in 1..Len(stack) :
       stack[i].pc = "loop" =>
         /\ CallsOf("get_children", stack[i].id) # {}
         /\ OfferedAfterChildrenOf(stack[i].id, i) \o stack[i].kids = get_children(stack[i].id)

\* a finished walk over the tree whose root lists 3 before 2: 3 was fetched
\* before 2, and 4, the child of 2, after 2 was saved
C21_Witness ==
  /\ WalkOver /\ remote = GraphTree /\ dl.root = 1
  /\ \E g3 \in CallsOf("get_page", 3), g2 \in CallsOf("get_page", 2),
        s2 \in CallsOf("save_page", 2), g4 \in CallsOf("get_page", 4) :
       g3 < g2 /\ g2 < s2 /\ s2 < g4

CallsNamed(op) == {i \in 1..Len(calls) : calls[i].op = op}

\* the child links of the whole graph
RECURSIVE ChildLinks(_)
ChildLinks(n) == IF n = 0 THEN 0 ELSE Len(remote[n].children) + ChildLinks(n - 1)

\* C7 (cycle safety): within one top-level walk get_page is called at most
\* once for each page id, and the walk ends: download_tree is entered at most
\* once for the root and once for each child link of the graph, whatever the
\* graph (a child that is an ancestor, a page with several parents) and also
\* when max_depth exceeds the number of pages.
C7_CycleSafe ==
  /\ \A n \in Pages : Cardinality(CallsOf("get_page", n)) <= 1
  /\ Cardinality(CallsNamed("download_tree")) <= 1 + ChildLinks(Cardinality(Pages))
  /\ \A i \in 1..Len(stack) : stack[i].pc \in {"enter", "attachments", "save", "children", "loop"}

\* a finished walk over the cyclic graph with max_depth above the number of
\* pages: the ancestor was offered again as a child and every page was
\* fetched once
C7_Witness ==
  /\ WalkOver
  /\ remote = GraphCycle
  /\ max_depth > Cardinality(Pages)
  /\ Cardinality(CallsOf("download_tree", 1)) = 2
  /\ \A n \in Pages : Cardinality(CallsOf("get_page", n)) = 1

-----------------------------------------------------------------------------
(* upload main(): the loop over the records of the source directory        *)

\* sorted(source_dir.glob("*.xhtml")): the names of the model share their
\* space prefix and differ in a one-digit page id, so that the order of the
\* path strings is the order of the ids
PathLE(a, b) ==
  \E n, m \in 0..9 : ToString(n) = a[3] /\ ToString(m) = b[3] /\ n <= m

RECURSIVE sorted(_)
sorted(paths) ==
  IF paths = {} THEN <<>>
  ELSE LET first == CHOOSE x \in paths : \A y \in paths : PathLE(x, y)
       IN <<first>> \o sorted(paths \ {first})

\* if not meta or 'confluence_id' not in meta: continue
NoFrontMatter(meta) == meta = EmptyDict \/ <<"confluence_id">> \notin DOMAIN meta

\* if not isinstance(source_url, str) or not source_url.strip(): continue
NoSourceUrl(meta) == <<"source">> \notin DOMAIN meta \/ strip(meta[<<"source">>]) = <<>>

\* _extract_base_url_from_source and _get_site_creds: the user configuration
\* holds the credentials of the one site of the model
CredentialsError(meta) == ~startswith(meta[<<"source">>], BaseUrl)

\* if 'output_hash' in meta: if get_md5_exact(body) == meta['output_hash']: skip
OutputHashMatches(meta, body) ==
  <<"output_hash">> \in DOMAIN meta /\ get_md5_exact(body) = meta[<<"output_hash">>]

\* int(meta.get(key, 0)) returns: the value is absent or an integer literal
IntParses(meta, key) ==
  key \in DOMAIN meta => \E n \in 0..MaxMacroCount : meta[key] = Str(n)

MacroCountsParse(meta) ==
  /\ IntParses(meta, <<"macro_structured_macro">>)
  /\ IntParses(meta, <<"macro_image">>)
  /\ IntParses(meta, <<"macro_link">>)

\* get_macro_counts(content) of the upload script
get_macro_counts(content) ==
  [structured_macro |-> CountOf("<ac:structured-macro", content),
   image |-> CountOf("<ac:image", content),
   link |-> CountOf("<ac:link", content)]

MacroKinds == {"structured_macro", "image", "link"}

\* the front-matter key of a macro kind
MacroKey(kind) ==
  CASE kind = "structured_macro" -> <<"macro_structured_macro">>
    [] kind = "image" -> <<"macro_image">>
    [] kind = "link" -> <<"macro_link">>

\* int(meta.get(key, 0)), where it returns
OrigCount(meta, key) ==
  IF key \in DOMAIN meta THEN CHOOSE n \in 0..MaxMacroCount : meta[key] = Str(n) ELSE 0

\* a comparison the wrong way round
CountIncreased(orig, new) == orig > 0 /\ new > orig

\* if orig > 0 and new_counts[kind] < orig: print(... count decreased ...)
CountDecreased(orig, new) == orig > 0 /\ new < orig

\* the kinds the loop prints a warning for
MacroWarnings(meta, body) ==
  {kind \in MacroKinds : CountDecreased(OrigCount(meta, MacroKey(kind)), get_macro_counts(body)[kind])}

\* the page the remote knows under the id text of a record, 0 when none
PageIdOf(text) ==
  IF \E n \in DOMAIN remote : Str(n) = text
  THEN CHOOSE n \in DOMAIN remote : Str(n) = text
  ELSE 0

\* an upload that numbers its update from the version stored in the record
new_version_from_record(current_version) ==
  (CHOOSE n \in 0..(MaxVersion + MaxUploads) : Str(n) = up.stored_version) + 1

\* an upload that reads the remote version again when it submits
new_version_refetched(current_version) == remote[PageIdOf(up.page_id)].version + 1

\* new_version = current_version + 1
new_version(current_version) == current_version + 1

\* PUT content/{id} with version.number: the remote takes the update only as
\* the successor of its current version; resp.raise_for_status() otherwise
RemoteAccepts(n, version) == n \in DOMAIN remote /\ version = remote[n].version + 1

\* upload main() up to the loop
StartUpload(dry_run) ==
  /\ ~dl.active /\ ~up.active
  /\ up.runs - up.interrupts < MaxUploads
  /\ disk # EmptyDict
  /\ up' = [NoUpload EXCEPT !.active = TRUE, !.runs = up.runs + 1, !.dry_run = dry_run,
                            !.files = sorted(DOMAIN disk), !.pc = "file",
                            !.before = up.before \cup up.done,
                            !.interrupts = up.interrupts, !.others = up.others]
  /\ calls' = <<>>
  /\ UNCHANGED <<remote, disk, clock, max_depth, linebreak_mode, dl, seen, stack,
                 attfiles, dirty, foreign, edits, saved, cin, cout>>

\* one file of the loop, from file.read_text to the macro count warnings
upload_read_file ==
  /\ up.active /\ up.pc = "file" /\ up.files # <<>>
  /\ LET file == Head(up.files)
         parsed == parse_front_matter(read_text(disk[file]))
         meta == parsed.front
         body == parsed.body
         next == [up EXCEPT !.files = Tail(@), !.file = file, !.body = body, !.raced = FALSE,
                            !.page_id = <<>>, !.stored_version = <<>>]
     IN up' = IF NoFrontMatter(meta) THEN next
              ELSE IF NoSourceUrl(meta) THEN next
              ELSE IF CredentialsError(meta) THEN next
              ELSE IF OutputHashMatches(meta, body)
                   THEN [next EXCEPT !.skipped = Append(@, <<file, meta[<<"confluence_id">>]>>)]
              ELSE IF ~MacroCountsParse(meta)
                   THEN [next EXCEPT !.active = FALSE, !.pc = "crashed"]
              ELSE [next EXCEPT !.pc = "get", !.page_id = meta[<<"confluence_id">>],
                                !.stored_version = IF <<"version">> \in DOMAIN meta
                                                   THEN meta[<<"version">>] ELSE <<>>,
                                !.warnings = @ \cup {<<file, kind>> : kind \in MacroWarnings(meta, body)}]
  /\ UNCHANGED <<remote, disk, clock, max_depth, linebreak_mode, dl, seen, stack, calls,
                 attfiles, dirty, foreign, edits, saved, cin, cout>>

\* a loop that tries the failed call again
AfterExceptionRetry(at) == at

\* except Exception as e: print("Failed to process file ..."), and the for
\* loop takes the next file
AfterException(at) == "file"

\* a run that ignores --dry-run
PreviewOnlyNever(dry_run) == FALSE

\* if dry_run: would_update.append(...) else: update_page(...)
PreviewOnly(dry_run) == dry_run

\* current_page = get_page(...); new_version = current_version + 1; the dry
\* run records what it would do; an exception ends the file
upload_get_page ==
  /\ up.active /\ up.pc = "get"
  /\ \E responds \in BOOLEAN :
       LET n == PageIdOf(up.page_id)
           ok == responds /\ n \in DOMAIN remote
           page == IF ok THEN get_page(n) ELSE NullPage
       IN /\ calls' = Append(calls, UploadCall("get_page", n, page.version, ok, up.file,
                                               n \in foreign, FALSE))
          /\ up' = IF ~ok THEN [up EXCEPT !.pc = AfterException("get"),
                                          !.failures = @ \cup {up.file}]
                   ELSE IF PreviewOnly(up.dry_run)
                        THEN [up EXCEPT !.pc = "file", !.current_version = page.version,
                                        !.title = page.title,
                                        !.would_update = Append(@, <<up.file, up.page_id, page.title,
                                                                    new_version(page.version)>>)]
                   ELSE [up EXCEPT !.pc = "update", !.current_version = page.version,
                                   !.title = page.title]
  /\ UNCHANGED <<remote, disk, clock, max_depth, linebreak_mode, dl, seen, stack,
                 attfiles, dirty, foreign, edits, saved, cin, cout>>

\* an upload that writes the version it was given back into the record
DiskAfterUpdateRefreshed(file, version) ==
  [disk EXCEPT ![file] = @ \o <<NL, "version", COLON, SP>> \o Str(version)]

\* result = update_page(...): only result['version']['number'] is printed
DiskAfterUpdate(file, version) == disk

\* update_page(base_url, page_id, current_page['title'], body, new_version, headers)
upload_update_page ==
  /\ up.active /\ up.pc = "update"
  /\ \E responds \in BOOLEAN :
       LET n == PageIdOf(up.page_id)
           version == new_version(up.current_version)
           ok == responds /\ RemoteAccepts(n, version)
       IN /\ remote' = IF ok
                       THEN [remote EXCEPT ![n].title = up.title, ![n].body = up.body,
                                           ![n].version = version]
                       ELSE remote
          /\ dirty' = (dirty \/ ok)
          /\ foreign' = IF ok THEN foreign \ {n} ELSE foreign
          /\ calls' = Append(calls, UploadCall("update_page", n, version, ok, up.file,
                                               n \in foreign, up.raced))
          /\ up' = IF ok THEN [up EXCEPT !.pc = "file", !.done = @ \cup {up.file},
                                         !.sent = @ \cup {<<up.file, up.body>>}]
                   ELSE [up EXCEPT !.pc = AfterException("update"),
                                   !.failures = @ \cup {up.file},
                                   !.sent = @ \cup {<<up.file, up.body>>}]
          /\ disk' = IF ok THEN DiskAfterUpdate(up.file, version) ELSE disk
  /\ UNCHANGED <<clock, max_depth, linebreak_mode, dl, seen, stack,
                 attfiles, edits, saved, cin, cout>>

\* print("Upload process finished.") and the dry-run summary
FinishUpload ==
  /\ up.active /\ up.pc = "file" /\ up.files = <<>>
  /\ up' = [up EXCEPT !.active = FALSE, !.pc = "idle"]
  /\ UNCHANGED <<remote, disk, clock, max_depth, linebreak_mode, dl, seen, stack, calls,
                 attfiles, dirty, foreign, edits, saved, cin, cout>>

\* the operator stops the run between two files (Ctrl-C, a closed terminal)
InterruptUpload ==
  /\ up.active /\ up.pc = "file"
  /\ up.interrupts < MaxInterrupts
  /\ up' = [up EXCEPT !.active = FALSE, !.pc = "interrupted", !.interrupts = @ + 1]
  /\ UNCHANGED <<remote, disk, clock, max_depth, linebreak_mode, dl, seen, stack, calls,
                 attfiles, dirty, foreign, edits, saved, cin, cout>>

upload ==
  \/ upload_read_file
  \/ upload_get_page
  \/ upload_update_page
  \/ FinishUpload

-----------------------------------------------------------------------------
(* The other writers of the remote and the editor of the local records     *)

\* a record as the contract lays it out: '---', the key lines, '---', and
\* the body from the character after the closing line to the end of the file
RecordBodyStart(text) == find(text, <<NL>> \o DDD \o <<NL>>, Len(DDD) + 1) + Len(DDD) + 2

RecordHeader(text) == SubSeq(text, 1, RecordBodyStart(text) - 1)

RecordBody(text) == SubSeq(text, RecordBodyStart(text), Len(text))

\* the value of the line 'key: value' of a block of key lines: the text from
\* after 'key: ' to the end of the line (or of the block)
HasField(block, key) == find(block, <<NL, key, COLON, SP>>, 1) # 0

FieldOf(block, key) ==
  LET rest == SubSeq(block, find(block, <<NL, key, COLON, SP>>, 1) + 4, Len(block))
  IN IF find(rest, <<NL>>, 1) = 0 THEN rest ELSE SubSeq(rest, 1, find(rest, <<NL>>, 1) - 1)

FieldIs(block, key, value) == HasField(block, key) /\ FieldOf(block, key) = value

\* the bodies other writers give a page, and those a local edit gives a record
OtherBodies == {<<"w">>}

LocalBodies == {<<"z", "</p>">>}

\* the pages other writers edit
SharedPages == {1}

\* somebody else edits a page of the remote: a new body, the next version
RemoteEdit(n, body) ==
  /\ n \in DOMAIN remote
  /\ remote[n].version < MaxVersion
  /\ body # remote[n].body
  /\ remote' = [remote EXCEPT ![n].body = body, ![n].version = @ + 1]
  /\ dirty' = TRUE
  /\ foreign' = foreign \cup {n}
  /\ up' = IF up.active /\ up.pc = "update" /\ PageIdOf(up.page_id) = n
           THEN [up EXCEPT !.raced = TRUE, !.others = TRUE]
           ELSE [up EXCEPT !.others = TRUE]
  /\ UNCHANGED <<disk, clock, max_depth, linebreak_mode, dl, seen, stack, calls,
                 attfiles, edits, saved, cin, cout>>

\* the user edits the body of a record between two runs of the scripts
LocalEdit(file, body) ==
  /\ ~dl.active /\ ~up.active
  /\ edits < MaxLocalEdits
  /\ file \in DOMAIN disk
  /\ body # RecordBody(disk[file])
  /\ disk' = [disk EXCEPT ![file] = RecordHeader(disk[file]) \o body]
  /\ edits' = edits + 1
  /\ UNCHANGED <<remote, clock, max_depth, linebreak_mode, dl, seen, stack, up, calls,
                 attfiles, dirty, foreign, saved, cin, cout>>

-----------------------------------------------------------------------------
(* The sync specification: one site of two pages, downloads and uploads    *)

\* the bodies page 1 starts with: none, and one with a macro and a closing tag
SyncBodies == {<<>>, <<"<ac:image", "x", "</p>">>}

\* page 1 'P' with an attachment and the child 2; page 2 'A --- B', whose body
\* has a line that ends with '\r\n'
SyncSite(body) ==
  <<Page(<<"P">>, PlainWebui(1), body, 1, <<<<"a.png">>>>, <<2>>),
    Page(<<"A", SP>> \o DDD \o <<SP, "B">>, DashedWebui(2), <<"y", CR, NL, "y">>, 1, <<>>, <<>>)>>

\* a record of page 1 that an earlier release wrote: no content_hash, no
\* macro counts
LegacyRecord(page) ==
     DDD \o <<NL>>
  \o <<"source", COLON, SP>> \o source_url(page) \o <<NL>>
  \o <<"confluence_id", COLON, SP>> \o Str(page.id) \o <<NL>>
  \o <<"version", COLON, SP>> \o Str(page.version) \o <<NL>>
  \o <<"output_hash", COLON, SP>> \o output_hash_of(page.body) \o <<NL>>
  \o DDD \o <<NL>>
  \o page.body

LegacyDisk(site) ==
  LET page == [id |-> 1] @@ site[1]
  IN [f \in {file_name(page)} |-> LegacyRecord(page)]

Init ==
  /\ remote \in {SyncSite(b) : b \in SyncBodies}
  /\ disk \in {EmptyDict, LegacyDisk(remote)}
  /\ clock = 0
  /\ max_depth \in {0, DefaultMaxDepth}
  /\ linebreak_mode = "none"
  /\ dl = IdleDownload(<<1>>, TRUE)
  /\ seen = {}
  /\ stack = <<>>
  /\ up = NoUpload
  /\ calls = <<>>
  /\ attfiles = {}
  /\ dirty = FALSE
  /\ foreign = {}
  /\ edits = 0
  /\ saved = NoSave
  /\ cin = <<>>
  /\ cout = <<>>

Next ==
  \/ \E mode \in {"none", "tags"} : StartDownload(mode)
  \/ NextRoot
  \/ FinishDownload
  \/ download_tree
  \/ \E dry_run \in BOOLEAN : StartUpload(dry_run)
  \/ upload
  \/ \E n \in SharedPages, body \in OtherBodies : RemoteEdit(n, body)
  \/ \E file \in DOMAIN disk, body \in LocalBodies : LocalEdit(file, body)

Spec == Init /\ [][Next]_vars

-----------------------------------------------------------------------------
(* The upload specification: a directory of records as the upload finds it *)

\* what a record of the directory went through since save_page wrote it
RecordKinds ==
  {"unchanged", "edited", "unterminated", "garbled_count", "no_id", "no_output_hash", "no_hashes"}

\* a record of an earlier release: no output_hash line, with or without a
\* content_hash line
RecordWithoutOutputHash(page, mode, with_content_hash) ==
     DDD \o <<NL>>
  \o <<"source", COLON, SP>> \o source_url(page) \o <<NL>>
  \o <<"confluence_id", COLON, SP>> \o Str(page.id) \o <<NL>>
  \o <<"version", COLON, SP>> \o Str(page.version) \o <<NL>>
  \o (IF with_content_hash
      THEN <<"content_hash", COLON, SP>> \o content_hash_of(page.body) \o <<NL>>
      ELSE <<>>)
  \o DDD \o <<NL>>
  \o output_xhtml(page.body, mode)

\* the record of a page after a local edit that left a macro count that is
\* no integer
GarbledRecord(page, mode) ==
  front_matter(source_url(page), Str(page.id), page.space, Str(page.version),
               retrieved(0), <<"xhtml">>, content_hash_of(page.body),
               Str(macro_counts(page.body).structured_macro),
               <<"many">>,
               Str(macro_counts(page.body).link),
               output_hash_of(output_xhtml(page.body, mode)))
  \o <<"z">>

\* a record cut down by hand to three of its lines, the closing '---' line
\* lost with the others
UnterminatedRecord(page, mode) ==
     DDD \o <<NL>>
  \o <<"source", COLON, SP>> \o source_url(page) \o <<NL>>
  \o <<"confluence_id", COLON, SP>> \o Str(page.id) \o <<NL>>
  \o <<"output_hash", COLON, SP>> \o output_hash_of(output_xhtml(page.body, mode)) \o <<NL>>
  \o output_xhtml(page.body, mode)

RecordOfKind(page, mode, kind) ==
  LET fresh == record_text(page, mode, 0)
      header == RecordHeader(fresh)
  IN CASE kind = "unchanged" -> fresh
       [] kind = "edited" -> header \o <<"z">>
       [] kind = "unterminated" -> UnterminatedRecord(page, mode)
       [] kind = "garbled_count" -> GarbledRecord(page, mode)
       [] kind = "no_output_hash" -> RecordWithoutOutputHash(page, mode, TRUE)
       [] kind = "no_hashes" -> RecordWithoutOutputHash(page, mode, FALSE)
       [] kind = "no_id" -> DDD \o <<NL, "title", COLON, SP, "notes", NL>> \o DDD \o <<NL>> \o RecordBody(fresh)

\* the directory after a download of the site in the given mode: the records
\* of page 1 and page 2
UploadDisk(site, mode, kind1, kind2) ==
  LET page1 == [id |-> 1] @@ site[1]
      page2 == [id |-> 2] @@ site[2]
  IN [f \in {file_name(page1), file_name(page2)} |->
        IF f = file_name(page1) THEN RecordOfKind(page1, mode, kind1)
        ELSE RecordOfKind(page2, mode, kind2)]

InitUpload ==
  /\ remote \in {SyncSite(b) : b \in SyncBodies}
  /\ linebreak_mode \in {"none", "tags"}
  /\ disk \in {UploadDisk(remote, linebreak_mode, k1, k2) : k1 \in RecordKinds, k2 \in RecordKinds}
  /\ clock = 1
  /\ max_depth = DefaultMaxDepth
  /\ dl = IdleDownload(<<1>>, TRUE)
  /\ seen = {}
  /\ stack = <<>>
  /\ up = NoUpload
  /\ calls = <<>>
  /\ attfiles = {}
  /\ dirty = FALSE
  /\ foreign = {}
  /\ edits = 0
  /\ saved = NoSave
  /\ cin = <<>>
  /\ cout = <<>>

NextUpload ==
  \/ \E dry_run \in BOOLEAN : StartUpload(dry_run)
  \/ upload
  \/ InterruptUpload
  \/ \E n \in SharedPages, body \in OtherBodies : RemoteEdit(n, body)

SpecUpload == InitUpload /\ [][NextUpload]_vars

-----------------------------------------------------------------------------
(* Properties of the upload                                                *)

\* the MD5 digest of a text as both scripts store it
DigestOf(text) == IF text = <<>> THEN <<>> ELSE md5_hexdigest(text)

\* the files of the directory the current run has read
FilesRead == (DOMAIN disk) \ {up.files[i] : i \in DOMAIN up.files}

\* the metadata and the body of a record as the contract lays them out, the
\* file read in text mode
StoredCount(file, kind) ==
  LET value == FieldOf(RecordHeader(read_text(disk[file])), MacroKey(kind)[1])
  IN IF \E n \in 0..MaxMacroCount : value = Str(n)
     THEN CHOOSE n \in 0..MaxMacroCount : value = Str(n)
     ELSE 0

LocalCount(file, kind) ==
  Cardinality({i \in DOMAIN RecordBody(read_text(disk[file])) :
                 RecordBody(read_text(disk[file]))[i] =
                   (CASE kind = "structured_macro" -> "<ac:structured-macro"
                      [] kind = "image" -> "<ac:image"
                      [] kind = "link" -> "<ac:link")})

\* a record save_page wrote, with or without a later edit of its body
WellFormed(file) ==
  /\ find(disk[file], <<NL>> \o DDD \o <<NL>>, Len(DDD) + 1) # 0
  /\ HasField(RecordHeader(disk[file]), "confluence_id")
  /\ \A kind \in MacroKinds :
       \E n \in 0..MaxMacroCount :
         FieldIs(RecordHeader(disk[file]), MacroKey(kind)[1], Str(n))

\* the record is well formed and its body no longer has the stored digest
ChangedOnDisk(file) ==
  /\ WellFormed(file)
  /\ ~FieldIs(RecordHeader(read_text(disk[file])), "output_hash",
              get_md5_exact(RecordBody(read_text(disk[file]))))

CallsFor(file, op) == {i \in DOMAIN calls : calls[i].op = op /\ calls[i].file = file}

C14_FailureIsTerminalPerFile ==
  /\ \A file \in DOMAIN disk :
       /\ Cardinality(CallsFor(file, "get_page")) <= 1
       /\ Cardinality(CallsFor(file, "update_page")) <= 1
  /\ \A i \in DOMAIN calls :
       ~calls[i].ok =>
         /\ calls[i].file \in up.failures
         /\ \A j \in DOMAIN calls : j > i => calls[j].file # calls[i].file
         /\ (i = Len(calls) /\ up.file = calls[i].file) =>
              up.pc \in {"file", "idle", "interrupted"}
  /\ (up.pc = "idle" /\ up.runs > 0) => FilesRead = DOMAIN disk

\* the update of the first file failed and the second file was updated
C14_Witness ==
  \E i, j \in DOMAIN calls :
    /\ i < j
    /\ calls[i].op = "update_page" /\ ~calls[i].ok
    /\ calls[j].op = "update_page" /\ calls[j].ok
    /\ calls[j].file # calls[i].file
    /\ up.pc = "idle"

\* C15: a file whose front matter is malformed (no closing delimiter line,
\* a macro count that is no integer, no confluence_id line) is skipped: no
\* update call is issued for it and the batch is not aborted.
C15_MalformedSkipped ==
  \A file \in FilesRead :
    (up.runs > 0 /\ ~WellFormed(file)) =>
      /\ CallsFor(file, "update_page") = {}
      /\ up.pc # "crashed"

\* C16: no step of an upload run (its start, a skipped file, a dry run, an
\* accepted or failed update, its end) changes a byte of a local record.
C16_UploadNeverWrites == [][(up.active \/ up'.active) => disk' = disk]_vars

\* a run that ended after an accepted update: the record still has the
\* version it was downloaded with, the remote has the next one
C16_Witness ==
  /\ up.pc = "idle" /\ up.runs > 0
  /\ \E i \in DOMAIN calls :
       /\ calls[i].op = "update_page" /\ calls[i].ok
       /\ FieldIs(RecordHeader(disk[calls[i].file]), "version", Str(calls[i].ver - 1))
       /\ remote[calls[i].id].version = calls[i].ver
  /\ up.skipped # <<>>

\* C17 (safe resume): in a run started again after an interruption, with no
\* other writer in between, no update is issued for a file that was already
\* uploaded before the interruption.
C17_SafeResume ==
  (up.interrupts > 0 /\ ~up.others) =>
    \A i \in DOMAIN calls : calls[i].op = "update_page" => calls[i].file \notin up.before

\* the files the run is done with: every file once the run has ended
\* otherwise than by the operator, the files read so far before that
FilesProcessed == IF up.pc \in {"idle", "crashed"} THEN DOMAIN disk ELSE FilesRead

\* a record with its closing '---' line, a confluence_id and a source URL of
\* the site the credentials are for
Eligible(file) ==
  /\ find(disk[file], <<NL>> \o DDD \o <<NL>>, Len(DDD) + 1) # 0
  /\ HasField(RecordHeader(disk[file]), "confluence_id")
  /\ HasField(RecordHeader(disk[file]), "source")
  /\ startswith(FieldOf(RecordHeader(disk[file]), "source"), BaseUrl)

\* the digest of the body on disk differs from the stored output_hash, or
\* none is stored
DigestDiffersOrAbsent(file) ==
  ~FieldIs(RecordHeader(disk[file]), "output_hash", DigestOf(RecordBody(disk[file])))

\* C22 (update decision): every eligible record whose body digest differs
\* from its stored output_hash, or that stores none, is fetched from the
\* remote; when the fetch succeeds outside a dry run exactly one update_page
\* is issued for it, with the body that is on disk.
C22_UpdateDecision ==
  \A file \in FilesProcessed :
    (up.runs > 0 /\ Eligible(file) /\ DigestDiffersOrAbsent(file)) =>
      /\ \/ up.file = file /\ up.pc = "get"
         \/ CallsFor(file, "get_page") # {}
      /\ \A i \in CallsFor(file, "get_page") :
           (calls[i].ok /\ ~up.dry_run) =>
             \/ up.file = file /\ up.pc = "update"
             \/ /\ Cardinality(CallsFor(file, "update_page")) = 1
                /\ <<file, RecordBody(disk[file])>> \in up.sent

\* C23 (dry run): in a run with --dry-run there is no update_page call and
\* nothing is submitted; the would-update list has exactly one entry for each
\* file whose get_page succeeded, with the version current + 1 that an
\* upload would have submitted.
C23_DryRunPreviewsOnly ==
  (up.runs > 0 /\ up.dry_run) =>
    /\ \A i \in DOMAIN calls : calls[i].op # "update_page"
    /\ up.sent = {} /\ up.done = {}
    /\ \A k \in DOMAIN up.would_update :
         \E i \in CallsFor(up.would_update[k][1], "get_page") :
           calls[i].ok /\ up.would_update[k][4] = calls[i].ver + 1
    /\ \A i \in DOMAIN calls :
         (calls[i].op = "get_page" /\ calls[i].ok) =>
           Cardinality({k \in DOMAIN up.would_update : up.would_update[k][1] = calls[i].file}) = 1

\* a finished dry run over one changed and one unchanged file
C23_Witness ==
  /\ up.runs > 0 /\ up.dry_run /\ up.pc = "idle"
  /\ up.would_update # <<>>
  /\ up.skipped # <<>>
  /\ \E file \in DOMAIN disk : ChangedOnDisk(file) /\ CallsFor(file, "get_page") # {}

-----------------------------------------------------------------------------
(* Properties of the sync                                                  *)

\* the download run that goes on repeats the previous one: same line break
\* mode, and no remote page changed since the previous run began
RepeatedRun == dl.runs >= 2 /\ dl.quiet /\ ~dirty

\* C1: a download run that repeats the previous one over an unchanged remote
\* tree, with the same line break mode, writes no record
C1_SecondRunWritesNothing == RepeatedRun => dl.writes = 0

\* the digests and the version save_page had in hand at its last call
SavedOutputHash == output_hash_of(output_xhtml(saved.page.body, saved.mode))

SavedContentHash == content_hash_of(saved.page.body)

SavedVersion == Str(saved.page.version)

\* the record that call found at the target path stored this output hash and
\* this version
StoredOutputHashAndVersionMatch ==
  /\ saved.old # <<>>
  /\ FieldIs(RecordHeader(saved.old), "output_hash", SavedOutputHash)
  /\ FieldIs(RecordHeader(saved.old), "version", SavedVersion)

FirstBlock(text) ==
  IF find(text, DDD, Len(DDD) + 1) = 0 THEN <<>>
  ELSE SubSeq(text, Len(DDD) + 1, find(text, DDD, Len(DDD) + 1) - 1)

FirstBlockMatches ==
  /\ saved.old # <<>>
  /\ FieldIs(FirstBlock(saved.old), "output_hash", SavedOutputHash)
  /\ FieldIs(FirstBlock(saved.old), "content_hash", SavedContentHash)
  /\ FieldIs(FirstBlock(saved.old), "version", SavedVersion)

UnchangedOnDisk(file) ==
  /\ file \in DOMAIN disk
  /\ FieldIs(RecordHeader(disk[file]), "output_hash", get_md5_exact(RecordBody(disk[file])))

RemoteCalls == {i \in DOMAIN calls : calls[i].op \in {"get_page", "update_page"}}

\* C3: an upload run, dry or not, makes no get_page and no update_page call
\* for a record whose body digest equals its stored output_hash
C3_UploadSkip == up.active => \A i \in RemoteCalls : ~UnchangedOnDisk(calls[i].file)

Updates == {i \in DOMAIN calls : calls[i].op = "update_page"}

\* C4: every update_page call directly follows the successful get_page call
\* for the same file and submits the version that call returned plus 1,
\* whatever version the record stores
C4_VersionFreshness ==
  \A i \in Updates :
    /\ i > 1
    /\ calls[i - 1].op = "get_page" /\ calls[i - 1].ok
    /\ calls[i - 1].file = calls[i].file /\ calls[i - 1].id = calls[i].id
    /\ calls[i].ver = calls[i - 1].ver + 1

\* an update went out for a record whose stored version was stale
C4_Witness ==
  \E i \in Updates :
    /\ i = Len(calls) /\ calls[i].file = up.file
    /\ up.stored_version # <<>>
    /\ up.stored_version # Str(calls[i - 1].ver)

\* C5 as stated: no update of the upload path replaces a body that another
\* writer gave the page after the snapshot was downloaded
C5_NeverOverwritesOtherWriter == \A i \in Updates : calls[i].ok => ~calls[i].foreign

\* C5 as amended: an update submitted after another writer changed the page
\* since this file's get_page is rejected by the remote, and the other
\* writer's body stays
C5_RacedUpdateRejected == \A i \in Updates : calls[i].raced => ~calls[i].ok

\* the page changed between get_page and update_page; the update was refused
C5_Witness ==
  \E i \in Updates :
    /\ calls[i].raced /\ ~calls[i].ok
    /\ remote[calls[i].id].body \in OtherBodies

\* the number of tokens of a text that open a macro of the given kind
MacrosIn(text, opening) == Cardinality({i \in DOMAIN text : text[i] = opening})

\* C18 (hash provenance): in the record save_page wrote last, content_hash
\* is the digest of the body as fetched, output_hash is the digest of the
\* text that follows the front matter in the file, that text is the fetched
\* body (with a line break after each closing tag when the mode is "tags"),
\* and the macro counts are those of the fetched body.
C18_HashProvenance ==
  saved.wrote =>
    LET header == RecordHeader(saved.new)
        persisted == RecordBody(saved.new)
        fetched == saved.page.body
    IN /\ FieldIs(header, "content_hash", DigestOf(fetched))
       /\ FieldIs(header, "output_hash", DigestOf(persisted))
       /\ persisted = IF saved.mode = "tags" THEN _add_linebreaks_after_tags(fetched)
                                              ELSE fetched
       /\ FieldIs(header, "macro_structured_macro", Str(MacrosIn(fetched, "<ac:structured-macro")))
       /\ FieldIs(header, "macro_image", Str(MacrosIn(fetched, "<ac:image")))
       /\ FieldIs(header, "macro_link", Str(MacrosIn(fetched, "<ac:link")))

\* a record written in "tags" mode whose persisted body differs from the
\* fetched one, so that the two hashes differ
C18_Witness ==
  /\ saved.wrote /\ saved.mode = "tags"
  /\ RecordBody(saved.new) # saved.page.body
  /\ FieldOf(RecordHeader(saved.new), "content_hash") # FieldOf(RecordHeader(saved.new), "output_hash")
  /\ MacrosIn(saved.page.body, "<ac:image") > 0

\* the record that save_page found at the target path stores, between its
\* opening and its closing '---' line, the version and the two hashes of the
\* page just fetched
StoredMetadataMatches ==
  /\ saved.old # <<>>
  /\ FieldIs(RecordHeader(saved.old), "output_hash", SavedOutputHash)
  /\ FieldIs(RecordHeader(saved.old), "content_hash", SavedContentHash)
  /\ FieldIs(RecordHeader(saved.old), "version", SavedVersion)

\* C29 (pending local edits survive a re-download of an unchanged node): when
\* the record on disk stores the version and hashes of the page as fetched,
\* save_page leaves the file untouched, whatever its body holds now; it
\* overwrites the file only when the fetched version or hashes differ from
\* the stored metadata.
C29_LocalEditsSurvive == StoredMetadataMatches => ~saved.wrote

\* the download that ended last began after the one upload run, in which the
\* locally edited body of this record was submitted and accepted, and nobody
\* else ever wrote to the remote
RoundTripDone(file) ==
  /\ ~dl.active /\ ~up.active
  /\ dl.runs = 2 /\ edits = 1 /\ up.runs = 1
  /\ ~up.others
  /\ file \in up.done
  /\ \E body \in LocalBodies : <<file, read_text(body)>> \in up.sent
  /\ calls # <<>> /\ calls[1].op = "download_tree"

\* what the next upload run decides for the record: it is passed over before
\* any remote call
UploadWouldSkip(file) ==
  LET parsed == parse_front_matter(read_text(disk[file]))
  IN \/ NoFrontMatter(parsed.front)
     \/ NoSourceUrl(parsed.front)
     \/ CredentialsError(parsed.front)
     \/ OutputHashMatches(parsed.front, parsed.body)

\* C28 (round-trip convergence): after download, local edit of a record's
\* body, successful upload of that record and another download, with no
\* other writer on the remote and in either linebreak mode, the record stores
\* the remote's version, its output_hash is the digest of its on-disk body,
\* and the next upload run would pass it over without an update call.
C28_RoundTripConverges ==
  \A file \in DOMAIN disk :
    RoundTripDone(file) =>
      LET header == RecordHeader(disk[file])
          n == PageIdOf(FieldOf(header, "confluence_id"))
      IN /\ n \in DOMAIN remote
         /\ FieldIs(header, "version", Str(remote[n].version))
         /\ FieldIs(header, "output_hash", DigestOf(RecordBody(disk[file])))
         /\ UploadWouldSkip(file)

\* the round trip was made with a second download in "tags" mode, and the
\* record now holds the edited body at the version the upload created
C28_Witness ==
  \E file \in DOMAIN disk :
    /\ RoundTripDone(file)
    /\ linebreak_mode = "tags"
    /\ \E body \in LocalBodies :
         RecordBody(disk[file]) = output_xhtml(body, "tags") /\ RecordBody(disk[file]) # body
    /\ FieldIs(RecordHeader(disk[file]), "version", Str(2))

-----------------------------------------------------------------------------
(* The codec specification: the pure functions applied to drawn inputs     *)

\* what bodies are made of: a word, '---', the line breaks, a closing tag, a blank
BodyChunks == {<<"x">>, DDD, <<NL>>, <<CR, NL>>, <<"</p>">>, <<SP>>}

RECURSIVE BodiesUpTo(_)
BodiesUpTo(n) ==
  IF n = 0 THEN {<<>>}
  ELSE BodiesUpTo(n - 1) \cup {b \o c : b \in BodiesUpTo(n - 1), c \in BodyChunks}

Bodies == BodiesUpTo(MaxBodyLen)

\* the values save_page gives the keys of a record: a source URL with or
\* without '---', a space key or none, digests or the empty sentinel
RecordInputs ==
  [kind : {"record"},
   url : {BaseUrl \o PlainWebui(7), BaseUrl \o DashedWebui(7)},
   space : {<<"S">>, <<>>},
   content_hash : {md5_hexdigest(<<"x">>), <<>>},
   output_hash : {md5_hexdigest(<<"x">>), <<>>},
   body : Bodies]

\* files framed by hand or by earlier releases: LF or CRLF after the opening
\* line and after the closing line, a closing line with or without a
\* trailing blank
RawInputs ==
  [kind : {"raw"},
   opening_newline : {<<NL>>, <<CR, NL>>},
   closing_pad : {<<>>, <<SP>>},
   closing_newline : {<<NL>>, <<CR, NL>>},
   body : Bodies]

BodyInputs == [kind : {"body"}, body : Bodies]

\* the start of the upload script: CONFLUENCE_HTTP_TIMEOUT unset (<<>>) or
\* set, --timeout absent (-1) or given, in tenths of a second
ImportInputs == [kind : {"import"}, environ : {<<>>, <<"30">>}, timeout_arg : {-1, 0, 300}]

\* the names bound when the body of _get_env_timeout runs: its parameter and
\* the imports; the line that would bind value is a comment
NamesBound == {"default", "os", "argparse", "re", "json", "hashlib", "Path", "requests"}

\* def _get_env_timeout(default): if value is None: return default; try:
\* return float(value) except ValueError: return default
_get_env_timeout(default, environ) ==
  IF "value" \notin NamesBound THEN [raised |-> "NameError", result |-> 0]
  ELSE IF environ = <<>> THEN [raised |-> "", result |-> default]
  ELSE IF environ = <<"30">> THEN [raised |-> "", result |-> 300]
  ELSE [raised |-> "", result |-> default]

\* python upload_confluence.py [--timeout t]: the module body, then main()
\* up to REQUEST_TIMEOUT = max(args.timeout, 0.1)
upload_script_start(environ, timeout_arg) ==
  LET default == _get_env_timeout(DefaultTimeout, environ)
      given == IF timeout_arg = -1 THEN default.result ELSE timeout_arg
  IN IF default.raised # ""
     THEN [loaded |-> FALSE, raised |-> default.raised, DEFAULT_TIMEOUT |-> 0, REQUEST_TIMEOUT |-> 0]
     ELSE [loaded |-> TRUE, raised |-> "", DEFAULT_TIMEOUT |-> default.result,
           REQUEST_TIMEOUT |-> IF given > MinTimeout THEN given ELSE MinTimeout]

\* ai-agile.json as far as the directory of the records depends on it: the
\* 'confluence' subfolder and the folder of the SourceMaterial step, and
\* paths.source_material, each a path of directory names or <<>> when absent
ConfigInputs ==
  [kind : {"dirs"},
   subfolder : {<<>>, <<"docs", "wiki">>},
   folder : {<<>>, <<"src">>},
   source_material : {<<>>, <<"material">>},
   page : {1, 2}]

\* _get_confluence_rel_from_ai_agile_json(cfg), the same in both scripts
_get_confluence_rel_from_ai_agile_json(cfg) ==
  IF cfg.subfolder # <<>> THEN cfg.subfolder
  ELSE IF cfg.folder # <<>> THEN cfg.folder \o <<"confluence">>
  ELSE IF cfg.source_material # <<>> THEN cfg.source_material \o <<"confluence">>
  ELSE <<"01_source-material", "confluence">>

\* (ai_agile_root / confluence_rel).resolve(): a path is the sequence of its
\* names below the ai-agile root
confluence_dir(cfg) == _get_confluence_rel_from_ai_agile_json(cfg)

\* host = urlparse(page_url).netloc; site_out_dir = out_dir / host
site_out_dir(out_dir) == out_dir \o <<"wiki.example">>

\* file_path = out_dir / file_name, with save_page's out_dir = site_out_dir
record_path(cfg, page) == Append(site_out_dir(confluence_dir(cfg)), file_name(page))

\* source_dir.glob("*.xhtml"): the files directly in source_dir whose name
\* ends with .xhtml
glob_xhtml(source_dir, paths) ==
  {path \in paths :
     /\ Len(path) = Len(source_dir) + 1
     /\ SubSeq(path, 1, Len(source_dir)) = source_dir
     /\ path[Len(path)] # <<>>
     /\ path[Len(path)][Len(path[Len(path)])] = ".xhtml"}

\* a body text whose digest both paths compute
DigestInputs == [kind : {"digest"}, body : Bodies]

\* front_matter + body, as save_page writes it
EncodedRecord(in) ==
  front_matter(in.url, Str(7), in.space, Str(3), retrieved(0), <<"xhtml">>, in.content_hash,
               Str(0), Str(1), Str(2), in.output_hash)
  \o in.body

\* the pages save_page writes a record for: a web link with or without
\* '---', a space key or none, any body
WrittenInputs ==
  [kind : {"written"},
   url : {BaseUrl \o PlainWebui(7), BaseUrl \o DashedWebui(7)},
   space : {<<"S">>, <<>>},
   body : Bodies]

\* the record save_page writes for such a page, with the digests it computes
WrittenRecord(in) ==
  front_matter(in.url, Str(7), in.space, Str(3), retrieved(0), <<"xhtml">>,
               content_hash_of(in.body), Str(0), Str(1), Str(2), output_hash_of(in.body))
  \o in.body

\* a Jira ticket as the remote returns it, what the user did to its local
\* file after download_jira wrote it, and what happened to the ticket on the
\* remote since
TicketInputs ==
  [kind : {"ticket"},
   summary : {"a", "b"},
   local_edit : {"none", "fields"},
   remote_change : {"none", "fields", "deleted"}]

\* the JSON object of an issue: its key and its fields
Issue(summary) == [key |-> "K-1", fields |-> [summary |-> summary]]

\* compute_checksum(issue), the same in both Jira scripts: the SHA-256 of the
\* sorted compact JSON of the issue without its 'checksum' entry, as one
\* value that names the object it digests
compute_checksum(issue) ==
  <<"sha256", [k \in (DOMAIN issue) \ {"checksum"} |-> issue[k]]>>

\* save_issue: the object json.dump writes, the issue with its checksum added
save_issue(issue) ==
  [k \in (DOMAIN issue) \cup {"checksum"} |->
     IF k = "checksum" THEN compute_checksum(issue) ELSE issue[k]]

\* the user gives the ticket another summary in the local file
EditedFields(local_issue) ==
  [local_issue EXCEPT !["fields"] = [summary |-> "edited"]]

\* fetch_remote_issue: the issue, or None (<<>>) on 404
fetch_remote_issue(in) ==
  CASE in.remote_change = "none" -> Issue(in.summary)
    [] in.remote_change = "fields" -> Issue("changed")
    [] in.remote_change = "deleted" -> <<>>

\* the body of upload_jira's loop for one file: the remote calls it makes
upload_jira_file(local_issue, remote_issue) ==
  IF remote_issue = <<>> THEN <<"fetch_remote_issue", "create_remote_issue">>
  ELSE IF local_issue["checksum"] # compute_checksum(remote_issue)
       THEN <<"fetch_remote_issue", "update_remote_issue">>
  ELSE <<"fetch_remote_issue">>

\* the metadata map of an encoded record
MetadataOf(in) ==
  [k \in {<<"source">>, <<"confluence_id">>, <<"space">>, <<"version">>, <<"retrieved">>,
          <<"format">>, <<"content_hash">>, <<"macro_structured_macro">>, <<"macro_image">>,
          <<"macro_link">>, <<"output_hash">>} |->
     CASE k = <<"source">> -> in.url
       [] k = <<"confluence_id">> -> Str(7)
       [] k = <<"space">> -> in.space
       [] k = <<"version">> -> Str(3)
       [] k = <<"retrieved">> -> retrieved(0)
       [] k = <<"format">> -> <<"xhtml">>
       [] k = <<"content_hash">> -> in.content_hash
       [] k = <<"macro_structured_macro">> -> Str(0)
       [] k = <<"macro_image">> -> Str(1)
       [] k = <<"macro_link">> -> Str(2)
       [] k = <<"output_hash">> -> in.output_hash]

\* the text of a hand-framed file
RawContent(in) ==
     DDD \o in.opening_newline
  \o <<"k", COLON, SP, "v">> \o in.opening_newline
  \o DDD \o in.closing_pad \o in.closing_newline
  \o in.body

InitCodec ==
  /\ cin \in RecordInputs \cup RawInputs \cup BodyInputs \cup DigestInputs \cup ImportInputs
            \cup ConfigInputs \cup WrittenInputs \cup TicketInputs
  /\ cout = <<>>
  /\ remote = <<>>
  /\ disk = EmptyDict
  /\ clock = 0
  /\ max_depth = DefaultMaxDepth
  /\ linebreak_mode = "none"
  /\ dl = IdleDownload(<<>>, TRUE)
  /\ seen = {}
  /\ stack = <<>>
  /\ up = NoUpload
  /\ calls = <<>>
  /\ attfiles = {}
  /\ dirty = FALSE
  /\ foreign = {}
  /\ edits = 0
  /\ saved = NoSave

\* the download path encodes, the upload path decodes
EncodeThenParse ==
  /\ cin.kind = "record" /\ cout = <<>>
  /\ cout' = <<parse_front_matter(EncodedRecord(cin))>>
  /\ UNCHANGED <<remote, disk, clock, max_depth, linebreak_mode, dl, seen, stack, up, calls,
                 attfiles, dirty, foreign, edits, saved, cin>>

\* the upload path decodes a file it did not write
ParseRaw ==
  /\ cin.kind = "raw" /\ cout = <<>>
  /\ cout' = <<parse_front_matter(RawContent(cin))>>
  /\ UNCHANGED <<remote, disk, clock, max_depth, linebreak_mode, dl, seen, stack, up, calls,
                 attfiles, dirty, foreign, edits, saved, cin>>

\* the readability transform, applied once and applied to its own result
AddLinebreaks ==
  /\ cin.kind = "body" /\ cout = <<>>
  /\ cout' = <<[once |-> _add_linebreaks_after_tags(cin.body),
               twice |-> _add_linebreaks_after_tags(_add_linebreaks_after_tags(cin.body))]>>
  /\ UNCHANGED <<remote, disk, clock, max_depth, linebreak_mode, dl, seen, stack, up, calls,
                 attfiles, dirty, foreign, edits, saved, cin>>

\* the digest of one body text on the download path (output_hash) and on
\* the upload path (get_md5_exact)
DigestBothPaths ==
  /\ cin.kind = "digest" /\ cout = <<>>
  /\ cout' = <<[stored |-> output_hash_of(cin.body), exact |-> get_md5_exact(cin.body)]>>
  /\ UNCHANGED <<remote, disk, clock, max_depth, linebreak_mode, dl, seen, stack, up, calls,
                 attfiles, dirty, foreign, edits, saved, cin>>

\* the interpreter loads upload_confluence.py and main() sets the timeout
ImportUploadScript ==
  /\ cin.kind = "import" /\ cout = <<>>
  /\ cout' = <<upload_script_start(cin.environ, cin.timeout_arg)>>
  /\ UNCHANGED <<remote, disk, clock, max_depth, linebreak_mode, dl, seen, stack, up, calls,
                 attfiles, dirty, foreign, edits, saved, cin>>

\* a download and then an upload, both with their default directories under
\* one ai-agile root: the record the download writes for a page, and the
\* files the upload finds
DefaultDirectories ==
  /\ cin.kind = "dirs" /\ cout = <<>>
  /\ LET page == [id |-> cin.page] @@ SyncSite(<<"x">>)[cin.page]
         written == {record_path(cin, page)}
     IN cout' = <<[written |-> written, scanned |-> glob_xhtml(confluence_dir(cin), written)]>>
  /\ UNCHANGED <<remote, disk, clock, max_depth, linebreak_mode, dl, seen, stack, up, calls,
                 attfiles, dirty, foreign, edits, saved, cin>>

\* the record of a page is read back by the next download (save_page's
\* reader) and by the upload (parse_front_matter), each from
\* file.read_text()
ReadWrittenRecord ==
  /\ cin.kind = "written" /\ cout = <<>>
  /\ LET text == read_text(WrittenRecord(cin))
     IN cout' = <<[existing |-> existing_meta(text), front |-> parse_front_matter(text).front]>>
  /\ UNCHANGED <<remote, disk, clock, max_depth, linebreak_mode, dl, seen, stack, up, calls,
                 attfiles, dirty, foreign, edits, saved, cin>>

\* download_jira saves the ticket, the user edits the file or not, the
\* remote ticket changes or not, and upload_jira processes the file
SyncTicket ==
  /\ cin.kind = "ticket" /\ cout = <<>>
  /\ LET written == save_issue(Issue(cin.summary))
         local_issue == IF cin.local_edit = "fields" THEN EditedFields(written) ELSE written
     IN cout' = <<[local |-> local_issue,
                   calls |-> upload_jira_file(local_issue, fetch_remote_issue(cin))]>>
  /\ UNCHANGED <<remote, disk, clock, max_depth, linebreak_mode, dl, seen, stack, up, calls,
                 attfiles, dirty, foreign, edits, saved, cin>>

NextCodec ==
  \/ DefaultDirectories
  \/ SyncTicket
  \/ ReadWrittenRecord
  \/ EncodeThenParse
  \/ ParseRaw
  \/ AddLinebreaks
  \/ DigestBothPaths
  \/ ImportUploadScript

SpecCodec == InitCodec /\ [][NextCodec]_vars

-----------------------------------------------------------------------------
(* Properties of the codec                                                 *)

\* C8: parse_front_matter gives back the metadata map and the body of every
\* record the download path encodes, also when the body holds '---', when it
\* is empty and when a value is empty
C8_RoundTrip ==
  (cin.kind = "record" /\ cout # <<>>) =>
    /\ cout[1].front = MetadataOf(cin)
    /\ cout[1].body = cin.body

\* a record with an empty digest and a body that holds '---' on a line of
\* its own went through
C8_Witness ==
  /\ cin.kind = "record" /\ cout # <<>>
  /\ cin.output_hash = <<>>
  /\ find(cin.body, <<NL>> \o DDD \o <<NL>>, 1) # 0
  /\ cout[1].body = cin.body

\* the end of the closing delimiter line of a hand-framed file: where the
\* strict match ends when there is one, and otherwise the end of the line
\* after the key line, the second one that strips to '---'
ClosingLineEnd(in) ==
  IF EndIndex(RawContent(in)) # 0
  THEN EndIndex(RawContent(in)) + Len(ClosingMarker(RawContent(in))) - 1
  ELSE Len(RawContent(in)) - Len(in.body)

\* the text of the file that follows the closing delimiter line
TextAfterClosingLine(in) == SubSeq(RawContent(in), ClosingLineEnd(in) + 1, Len(RawContent(in)))

\* C9: under both framing styles the body parse_front_matter returns is the
\* text of the file that follows the closing delimiter line, byte for byte
C9_ExactBody ==
  (cin.kind = "raw" /\ cout # <<>>) => cout[1].body = TextAfterClosingLine(cin)

\* C10: applying the readability transform to its own result changes nothing
C10_Idempotent ==
  (cin.kind = "body" /\ cout # <<>>) => cout[1].twice = cout[1].once

\* C19: for every body text b the output hash save_page stores for b equals
\* get_md5_exact(b); for the empty text both are the empty sentinel, for any
\* other text both are the MD5 digest of b.
C19_SameDigest ==
  (cin.kind = "digest" /\ cout # <<>>) =>
    /\ cout[1].stored = cout[1].exact
    /\ cin.body = <<>> => cout[1].exact = <<>>
    /\ cin.body # <<>> => cout[1].exact = md5_hexdigest(cin.body) /\ cout[1].exact # <<>>

\* both digests were computed for the empty text
C19_Witness ==
  /\ cin.kind = "digest" /\ cout # <<>>
  /\ cin.body = <<>>
  /\ cout[1].stored = <<>>

\* C24 (bounded timeout): with CONFLUENCE_HTTP_TIMEOUT unset and no
\* --timeout, the upload script finishes its initialisation, its default
\* timeout is 15 seconds and the timeout its requests carry is at least 0.1
\* seconds.
C24_BoundedTimeout ==
  (cin.kind = "import" /\ cout # <<>> /\ cin.environ = <<>> /\ cin.timeout_arg = -1) =>
    /\ cout[1].loaded
    /\ cout[1].DEFAULT_TIMEOUT = DefaultTimeout
    /\ cout[1].REQUEST_TIMEOUT >= MinTimeout

\* C25 (download output is visible to upload): with the default directories
\* of both scripts, every record file the download wrote is among the files
\* the upload scans.
C25_DownloadVisibleToUpload ==
  (cin.kind = "dirs" /\ cout # <<>>) => cout[1].written \subseteq cout[1].scanned

\* the values save_page wrote for the keys its write suppression compares
WrittenValue(in, key) ==
  CASE key = <<"output_hash">> -> output_hash_of(in.body)
    [] key = <<"content_hash">> -> content_hash_of(in.body)
    [] key = <<"version">> -> Str(3)

SuppressionKeys == {<<"output_hash">>, <<"content_hash">>, <<"version">>}

\* C27 (the two front-matter readers agree): for every record save_page
\* writes, save_page's own reader of the existing file and parse_front_matter
\* both recover the output_hash, content_hash and version that were written,
\* also when the source URL contains '---'.
C27_ReadersAgree ==
  (cin.kind = "written" /\ cout # <<>>) =>
    \A key \in SuppressionKeys :
      /\ DictGetIs(cout[1].existing, key, WrittenValue(cin, key))
      /\ DictGetIs(cout[1].front, key, WrittenValue(cin, key))

CallsMade(op) == \E i \in DOMAIN cout[1].calls : cout[1].calls[i] = op

\* C30 (ticket change detection): for a ticket file that download_jira wrote,
\* with the remote ticket unchanged since, upload_jira calls
\* update_remote_issue when the fields of the file were edited locally, and
\* calls neither create_remote_issue nor update_remote_issue when they were
\* not.
C30_TicketChangeDetection ==
  (cin.kind = "ticket" /\ cout # <<>> /\ cin.remote_change = "none") =>
    /\ cin.local_edit = "fields" => CallsMade("update_remote_issue")
    /\ cin.local_edit = "none" =>
         ~CallsMade("update_remote_issue") /\ ~CallsMade("create_remote_issue")

=============================================================================
